---- MODULE Spec2Model ----
(***************************************************************************)
(* Model of the admin proxy of src/save.js: the auth gate (adminAuth), the *)
(* Express routes under /api/admin, the import pipeline (normalizeDate,    *)
(* the row mapper, the replace delete and the chunk loop), the export      *)
(* pipeline and the find-or-create step of the product upsert.             *)
(*                                                                         *)
(* JavaScript strings are sequences of one-character strings, so that      *)
(* split, trim, toLowerCase, padStart and the regular expressions are      *)
(* computed and not assumed.  JavaScript values are records tagged by      *)
(* their type.                                                             *)
(***************************************************************************)
EXTENDS Integers, Sequences, FiniteSets, TLC

VARIABLES
  \* ---- configuration and one request through the middleware chain
  ADMIN_API_KEY,   \* process.env.ADMIN_API_KEY || null
  ADMIN_EMAILS,    \* the parsed allowlist (a sequence of strings)
  req,             \* the request in flight: route, headers, query, adminUser
  pc,              \* position in the route's middleware chain (0 = no request)
  res,             \* the response sent for the request ([status |-> 0] = none yet)
  gate,            \* what adminAuth did for the request: "none", "admitted", "rejected"
  idp,             \* what sb.auth.getUser returned for the request ([k |-> "none"] = not called)
  getUserCalls,    \* calls of sb.auth.getUser made for the request
  ops,             \* backend table operations and rpcs issued for the request
  \* ---- the import handler (records are counted, not stored)
  body,            \* req.file and req.body as multer left them
  impPc,           \* where the import handler is: "idle", "awaitDelete", "loop", "awaitInsert"
  mapped,          \* mapped.length
  idx,             \* the loop variable i
  results,         \* the results object
  table,           \* product_registrations rows of the scope: prior to the import, and inserted by it
  \* ---- normalizeDate applied to one value
  dateIn,          \* the value v
  dateOut,         \* normalizeDate(v), or NotRun
  \* ---- the row mapper applied to one row, under either set of column names
  rowVals,         \* the values of the ten columns
  mappedCanonical, \* mapped for the row under the canonical names, or NotRun
  mappedLocalized, \* mapped for the row under the localized names, or NotRun
  \* ---- export of a scope and import of the exported file
  store,           \* product_registrations, row by row
  exported,        \* data, the rows the export selected
  sheet,           \* the exported sheet, header row first, or NotRun
  reimported,      \* mapped, the records the import of the sheet inserts, or NotRun
  rtPc,            \* "fill", "exported", "imported"
  \* ---- concurrent product upserts
  companies,       \* the companies table
  products,        \* the product_registrations rows the upserts inserted
  up               \* per request: where the handler is, its body, company_id, response

authVars == <<ADMIN_API_KEY, ADMIN_EMAILS, req, pc, res, gate, idp, getUserCalls, ops>>
impVars == <<body, impPc, mapped, idx, results, table>>

dateVars == <<dateIn, dateOut>>
rowVars == <<rowVals, mappedCanonical, mappedLocalized>>

rtVars == <<store, exported, sheet, reimported, rtPc>>
upVars == <<companies, products, up>>

\* What a handler of the one-request and import specifications leaves alone.
pureVars == <<dateVars, rowVars, rtVars, upVars>>

vars == <<authVars, impVars, dateVars, rowVars, rtVars, upVars>>

(***************************************************************************)
(* JavaScript values and strings                                           *)
(***************************************************************************)
Undefined == [t |-> "undefined"]
Null      == [t |-> "null"]
Str(s)    == [t |-> "string", s |-> s]
Num(n)    == [t |-> "number", n |-> n]
DateV(d)  == [t |-> "date", d |-> d]       \* a valid Date, d = days since 1970-01-01
InvalidDate == [t |-> "invalid date"]      \* new Date(NaN)

\* JavaScript truthiness of a value.
Truthy(v) ==
  CASE v.t = "string" -> Len(v.s) > 0
    [] v.t = "number" -> v.n # 0
    [] v.t = "date" -> TRUE
    [] v.t = "invalid date" -> TRUE
    [] OTHER -> FALSE

\* a || b
Or(a, b) == IF Truthy(a) THEN a ELSE b

UpperChars == <<"A", "B", "D", "E", "I", "M", "N", "R">>
LowerChars == <<"a", "b", "d", "e", "i", "m", "n", "r">>

LowerChar(c) ==
  IF \E i \in 1..Len(UpperChars) : UpperChars[i] = c
  THEN LowerChars[CHOOSE i \in 1..Len(UpperChars) : UpperChars[i] = c]
  ELSE c

\* String.prototype.toLowerCase
ToLowerCase(s) == [i \in 1..Len(s) |-> LowerChar(s[i])]

IsSpace(c) == c = " "

RECURSIVE TrimStart(_)
TrimStart(s) ==
  IF Len(s) > 0 /\ IsSpace(s[1]) THEN TrimStart(Tail(s)) ELSE s

RECURSIVE TrimEnd(_)
TrimEnd(s) ==
  IF Len(s) > 0 /\ IsSpace(s[Len(s)]) THEN TrimEnd(SubSeq(s, 1, Len(s) - 1)) ELSE s

\* String.prototype.trim
Trim(s) == TrimEnd(TrimStart(s))

\* String.prototype.split(d) for a one-character separator d: "".split(d) is [""].
RECURSIVE Split(_, _)
Split(s, d) ==
  IF \E k \in 1..Len(s) : s[k] = d
  THEN LET k == CHOOSE j \in 1..Len(s) : s[j] = d /\ \A m \in 1..(j - 1) : s[m] # d
       IN  <<SubSeq(s, 1, k - 1)>> \o Split(SubSeq(s, k + 1, Len(s)), d)
  ELSE <<s>>

\* Array.prototype.includes on a sequence
Includes(arr, x) == \E i \in 1..Len(arr) : arr[i] = x

\* The result of a function that has not run yet.
NotRun == [t |-> "not run"]

\* Nothing is being normalized.
DateIdle ==
  /\ dateIn = Undefined
  /\ dateOut = NotRun

\* Nothing is being mapped.
RowIdle ==
  /\ rowVals = <<>>
  /\ mappedCanonical = NotRun
  /\ mappedLocalized = NotRun

\* No export and no import of an exported file.
RoundTripIdle ==
  /\ store = <<>>
  /\ exported = <<>>
  /\ sheet = NotRun
  /\ reimported = NotRun
  /\ rtPc = "fill"

\* No upsert in flight.
UpsertIdle ==
  /\ companies = <<>>
  /\ products = <<>>
  /\ up = <<>>

PureIdle == DateIdle /\ RowIdle /\ RoundTripIdle /\ UpsertIdle

(***************************************************************************)
(* Configuration (lines 21-22)                                             *)
(***************************************************************************)
SecretKey == <<"k", "1">>
WrongKey  == <<"z", "9">>

\* The values process.env.ADMIN_API_KEY takes in the model.
EnvAdminKeys == {Undefined, Str(<<>>), Str(SecretKey)}

\* The values process.env.ADMIN_EMAILS takes in the model: unset, empty,
\* "a@m" and "a@m, b@m ,".
EnvAdminEmails ==
  {Undefined, Str(<<>>), Str(<<"a", "@", "m">>),
   Str(<<"a", "@", "m", ",", " ", "b", "@", "m", " ", ",">>)}

\* const ADMIN_API_KEY = process.env.ADMIN_API_KEY || null
ParseAdminKey(env) == Or(env, Null)

\* (process.env.ADMIN_EMAILS || '').split(',').map(s=>s.trim()).filter(Boolean)
ParseAdminEmails(env) ==
  LET parts   == Split(Or(env, Str(<<>>)).s, ",")
      trimmed == [i \in 1..Len(parts) |-> Trim(parts[i])]
  IN  SelectSeq(trimmed, LAMBDA e : Len(e) > 0)

(***************************************************************************)
(* The auth gate (lines 31-53)                                             *)
(***************************************************************************)
KeyValues == {Undefined, Str(<<>>), Str(SecretKey), Str(WrongKey)}

Bearer == <<"b", "e", "a", "r", "e", "r">>

\* The Authorization headers of the model: none, "Bearer t", "BEARER t",
\* "Basic t", "Bearer" and "Bearer t x".
AuthorizationValues ==
  {Undefined,
   Str(<<"B", "e", "a", "r", "e", "r", " ", "t">>),
   Str(<<"B", "E", "A", "R", "E", "R", " ", "t">>),
   Str(<<"B", "a", "s", "i", "c", " ", "t">>),
   Str(<<"B", "e", "a", "r", "e", "r">>),
   Str(<<"B", "e", "a", "r", "e", "r", " ", "t", " ", "x">>)}

Admin == <<"a", "d", "m", "i", "n">>

\* The role claims of the model: absent, "admin", "Admin", "user", "admins",
\* and a claim that is not a string.
RoleValues ==
  {Undefined, Str(Admin), Str(<<"A", "d", "m", "i", "n">>),
   Str(<<"u", "s", "e", "r">>), Str(<<"a", "d", "m", "i", "n", "s">>), Num(7)}

EmailValues ==
  {Undefined, Str(<<"b", "@", "m">>), Str(<<"c", "@", "m">>), Str(<<"B", "@", "m">>)}

\* What sb.auth.getUser(token) can do: throw, return an error, return no
\* error and no user, or return a user.
GetUserOutcomes ==
  {[k |-> "throw"], [k |-> "error"], [k |-> "nouser"]}
    \cup {[k |-> "user", role |-> r, email |-> e] : r \in RoleValues, e \in EmailValues}

NotCalled == [k |-> "none"]

\* line 33: req.headers['x-admin-key'] || req.query.admin_key || req.headers['x-legacy-admin-key']
PresentedKey(rq) == Or(Or(rq.xAdminKey, rq.queryKey), rq.legacyKey)

\* line 34: key && ADMIN_API_KEY && key === ADMIN_API_KEY
StaticKeyOk(rq, K) ==
  /\ Truthy(PresentedKey(rq))
  /\ Truthy(K)
  /\ PresentedKey(rq) = K

\* line 36: (req.headers['authorization'] || '').split(' ')
AuthParts(rq) == Split(Or(rq.authorization, Str(<<>>)).s, " ")

\* line 37: auth.length === 2 && auth[0].toLowerCase() === 'bearer'
IsBearer(auth) == Len(auth) = 2 /\ ToLowerCase(auth[1]) = Bearer

\* line 43: role && role.toLowerCase() === 'admin' (a truthy role that is no
\* string has no toLowerCase: the call throws)
RoleThrows(role) == Truthy(role) /\ role.t # "string"

\* A comparison of the role that minds the case.
RoleIsAdminExact(role) == Truthy(role) /\ role.t = "string" /\ role.s = Admin

RoleIsAdmin(role) == Truthy(role) /\ role.t = "string" /\ ToLowerCase(role.s) = Admin

\* line 44: ADMIN_EMAILS.length && ADMIN_EMAILS.includes(user.email)
EmailAllowed(emails, email) ==
  Len(emails) > 0 /\ email.t = "string" /\ Includes(emails, email.s)

\* What adminAuth does: it calls next() or sends a response; called is whether
\* it called sb.auth.getUser on the way.
CallNext(user, called)  == [next |-> TRUE,  status |-> 0,  error |-> "",  adminUser |-> user, called |-> called]
Reject(st, msg, called) == [next |-> FALSE, status |-> st, error |-> msg, adminUser |-> Undefined, called |-> called]

\* The bearer branch, lines 38-45, given what getUser did.
BearerBranch(emails, out) ==
  IF out.k = "throw" THEN Reject(500, "auth error", TRUE)
  ELSE IF out.k \in {"error", "nouser"} THEN Reject(401, "invalid token", TRUE)
  ELSE LET role == Or(out.role, Str(<<>>)) IN
       IF RoleThrows(role) THEN Reject(500, "auth error", TRUE)
       ELSE IF RoleIsAdmin(role) THEN CallNext(out, TRUE)
       ELSE IF EmailAllowed(emails, out.email) THEN CallNext(out, TRUE)
       ELSE Reject(403, "forbidden", TRUE)

\* A gate that validates the bearer token before it looks at the static key.
adminAuthBearerFirst(rq, K, emails, out) ==
  IF IsBearer(AuthParts(rq)) THEN BearerBranch(emails, out)
  ELSE IF StaticKeyOk(rq, K) THEN CallNext(Undefined, FALSE)
  ELSE Reject(401, "missing credentials", FALSE)

\* adminAuth(req, res, next): the decision for request rq under the key K and
\* the allowlist emails, when getUser (if called) does out.
adminAuth(rq, K, emails, out) ==
  IF StaticKeyOk(rq, K) THEN CallNext(Undefined, FALSE)
  ELSE IF IsBearer(AuthParts(rq)) THEN BearerBranch(emails, out)
  ELSE Reject(401, "missing credentials", FALSE)

(***************************************************************************)
(* The routes (lines 65, 73, 90, 105, 115, 150, 160, 171, 235): each route *)
(* is the chain of middleware Express runs for it, in order.  A middleware *)
(* runs only when the one before it called next().                         *)
(***************************************************************************)
RouteNames ==
  {"companies", "list", "company-code", "set-customer-code", "product",
   "product-delete", "bulk-delete", "import-csv", "export"}

\* The routes with the import route registered without the gate.
RoutesImportUngated ==
  [r \in RouteNames |->
     IF r = "import-csv" THEN <<"upload", r>> ELSE <<"adminAuth", r>>]

Routes ==
  [r \in RouteNames |->
     IF r = "import-csv" THEN <<"adminAuth", "upload", r>> ELSE <<"adminAuth", r>>]

\* The middleware the request in flight is at.
Stage == IF pc = 0 THEN "idle" ELSE Routes[req.route][pc]

Requests ==
  [route : RouteNames, xAdminKey : KeyValues,
   queryKey : {Undefined, Str(SecretKey), Str(WrongKey)},
   legacyKey : {Undefined, Str(SecretKey)},
   authorization : AuthorizationValues, adminUser : {Undefined}]

NoResponse == [status |-> 0, error |-> ""]
Json(st, msg) == [status |-> st, error |-> msg]
Ok == Json(200, "")

\* A backend call: from and n are the chunk an insert carries, st is
\* "pending" until the call returns, then "ok" or "error".
Call(kind, target, from, n, st) == [op |-> kind, on |-> target, from |-> from, n |-> n, st |-> st]
Op(kind, target) == Call(kind, target, 0, 0, "returned")

\* A request arrives at the head of its route's chain.
Arrive ==
  /\ pc = 0
  /\ res = NoResponse
  /\ \E rq \in Requests : req' = rq
  /\ pc' = 1
  /\ res' = NoResponse
  /\ gate' = "none"
  /\ idp' = NotCalled
  /\ getUserCalls' = 0
  /\ ops' = <<>>
  /\ UNCHANGED <<ADMIN_API_KEY, ADMIN_EMAILS>>
  /\ UNCHANGED pureVars
  /\ UNCHANGED impVars

\* adminAuth runs: it calls getUser when it reaches line 39, and either calls
\* next() or sends the response.
AdminAuthStep ==
  /\ Stage = "adminAuth"
  /\ \E out \in GetUserOutcomes :
       LET d == adminAuth(req, ADMIN_API_KEY, ADMIN_EMAILS, out)
       IN  /\ idp' = IF d.called THEN out ELSE NotCalled
           /\ getUserCalls' = IF d.called THEN getUserCalls + 1 ELSE getUserCalls
           /\ req' = [req EXCEPT !.adminUser = d.adminUser]
           /\ gate' = IF d.next THEN "admitted" ELSE "rejected"
           /\ pc' = IF d.next THEN pc + 1 ELSE 0
           /\ res' = IF d.next THEN res ELSE Json(d.status, d.error)
  /\ UNCHANGED <<ADMIN_API_KEY, ADMIN_EMAILS, ops>>
  /\ UNCHANGED pureVars
  /\ UNCHANGED impVars

\* A handler ends the request: it issued the calls issued and answered r.
Finish(issued, r) ==
  /\ ops' = ops \o issued
  /\ res' = r
  /\ pc' = 0
  /\ UNCHANGED <<ADMIN_API_KEY, ADMIN_EMAILS, req, gate, idp, getUserCalls>>
  /\ UNCHANGED pureVars
  /\ UNCHANGED impVars

\* GET /api/admin/companies (lines 65-70, listCompanies lines 56-60)
HandleCompanies ==
  /\ Stage = "companies"
  /\ \E err \in BOOLEAN :
       Finish(<<Op("select", "companies")>>, IF err THEN Json(500, "backend") ELSE Ok)

\* GET /api/admin/list (lines 73-87): the rpc, and on its error or exception
\* the table read.
HandleList ==
  /\ Stage = "list"
  /\ \E rpc \in {"ok", "error", "throw"}, err \in BOOLEAN :
       IF rpc = "ok"
       THEN Finish(<<Op("rpc", "get_company_portal")>>, Ok)
       ELSE Finish(<<Op("rpc", "get_company_portal"), Op("select", "product_registrations")>>,
                   IF err THEN Json(500, "backend") ELSE Ok)

\* GET /api/admin/company-code (lines 90-102)
HandleCompanyCode ==
  /\ Stage = "company-code"
  /\ \E rpc \in {"ok", "error", "throw"} :
       IF rpc = "ok"
       THEN Finish(<<Op("rpc", "get_customer_code")>>, Ok)
       ELSE Finish(<<Op("rpc", "get_customer_code"), Op("select", "companies")>>, Ok)

\* POST /api/admin/set-customer-code (lines 105-112)
HandleSetCustomerCode ==
  /\ Stage = "set-customer-code"
  /\ \E err \in BOOLEAN :
       Finish(<<Op("rpc", "set_customer_code")>>, IF err THEN Json(500, "backend") ELSE Ok)

\* DELETE /api/admin/product/:id (lines 150-157)
HandleProductDelete ==
  /\ Stage = "product-delete"
  /\ \E err \in BOOLEAN :
       Finish(<<Op("delete", "product_registrations")>>, IF err THEN Json(500, "backend") ELSE Ok)

\* POST /api/admin/bulk-delete (lines 160-168)
HandleBulkDelete ==
  /\ Stage = "bulk-delete"
  /\ \E idsIsArray \in BOOLEAN, err \in BOOLEAN :
       IF ~idsIsArray
       THEN Finish(<<>>, Json(400, "ids must be array"))
       ELSE Finish(<<Op("delete", "product_registrations")>>,
                   IF err THEN Json(500, "backend") ELSE Ok)

\* GET /api/admin/export (lines 235-250)
HandleExport ==
  /\ Stage = "export"
  /\ \E code \in {<<>>, <<"c", "1">>}, err \in BOOLEAN :
       IF Len(code) = 0
       THEN Finish(<<>>, Json(400, "missing code"))
       ELSE Finish(<<Op("select", "product_registrations")>>,
                   IF err THEN Json(500, "backend") ELSE Ok)

CompanyCodeValues == {Undefined, Str(<<>>), Str(<<" ">>), Str(<<"c", "1">>), Str(<<" ", "c", "1">>)}

\* line 121: (company_code||'').trim()
CodeUp(company_code) == Trim(Or(company_code, Str(<<>>)).s)

\* POST /api/admin/product (lines 115-147), the calls it issues for a body
\* and the backend's answers: found is whether the company read returned a
\* row, insErr whether the company insert failed, err whether the product
\* write failed.
HandleProduct ==
  /\ Stage = "product"
  /\ \E product \in {"none", "new", "withId"}, code \in CompanyCodeValues,
        found \in BOOLEAN, insErr \in BOOLEAN, err \in BOOLEAN :
       LET codeUp == CodeUp(code)
           lookup == IF Len(codeUp) = 0 THEN <<>>
                     ELSE IF found THEN <<Op("select", "companies")>>
                     ELSE <<Op("select", "companies"), Op("insert", "companies")>>
           write  == IF product = "withId" THEN Op("update", "product_registrations")
                     ELSE Op("insert", "product_registrations")
       IN  IF product = "none" THEN Finish(<<>>, Json(400, "missing product"))
           ELSE IF Len(codeUp) > 0 /\ ~found /\ insErr THEN Finish(lookup, Json(500, "backend"))
           ELSE Finish(lookup \o <<write>>, IF err THEN Json(500, "backend") ELSE Ok)

(***************************************************************************)
(* The import handler (lines 171-232).  The rows of the file are counted:  *)
(* kept rows pass the mapper's filter (line 214), dropped rows do not.     *)
(* The handler is cut at its awaits.                                       *)
(***************************************************************************)
CHUNK == 500

Min(a, b) == IF a < b THEN a ELSE b

NoBody == [file |-> FALSE, replace_mode |-> Undefined, kept |-> 0, dropped |-> 0]

ReplaceModeValues ==
  {Undefined, Str(<<"1">>), Str(<<"t", "r", "u", "e">>), Str(<<"0">>)}

\* line 174: req.body.replace_mode === '1' || req.body.replace_mode === 'true'
ReplaceModeOn(v) == v = Str(<<"1">>) \/ v = Str(<<"t", "r", "u", "e">>)

\* records.length, lines 179-186
RecordsLength(b) == b.kept + b.dropped

\* mapped.length, lines 202-214: the rows the filter keeps
MappedLength(b) == b.kept

\* line 221
InitialResults(m) == [total |-> m, success |-> 0, failed |-> 0, errors |-> <<>>]

\* line 223: mapped.slice(i, i+CHUNK).length
ChunkLen(m, i) == Min(i + CHUNK, m) - i

\* A step that overlaps the chunks by one row.
NextIndexOverlap(i) == i + CHUNK - 1

\* line 222: i += CHUNK
NextIndex(i) == i + CHUNK

\* A tally whose success branch lost its else.
TallyNoElse(r, n, err) ==
  IF err THEN [r EXCEPT !.failed = @ + n, !.errors = Append(@, "insert failed"), !.success = @ + n]
  ELSE [r EXCEPT !.success = @ + n]

\* lines 225-228
Tally(r, n, err) ==
  IF err THEN [r EXCEPT !.failed = @ + n, !.errors = Append(@, "insert failed")]
  ELSE [r EXCEPT !.success = @ + n]

\* The table after .delete().eq('company_code', company_code) returned
AfterDelete(t, err) == IF err THEN t ELSE [prior |-> 0, fresh |-> 0]

\* The table after .insert(chunk) returned
AfterInsert(t, n, err) == IF err THEN t ELSE [t EXCEPT !.fresh = @ + n]

\* The last call of the log returned with st.
Returned(log, st) == [log EXCEPT ![Len(log)].st = st]

Outcome(err) == IF err THEN "error" ELSE "ok"

\* The bodies multer hands the handler in the one-request specification.
AuthBodies ==
  [file : BOOLEAN, replace_mode : {Undefined, Str(<<"1">>)}, kept : {0, 2}, dropped : {0, 1}]

\* upload.single('file'): multer reads the multipart body into req.file and
\* req.body and calls next(), or fails (an oversize upload) and the handler
\* never runs.
UploadSingle ==
  /\ Stage = "upload"
  /\ \E accepted \in BOOLEAN, b \in AuthBodies :
       /\ pc' = IF accepted THEN pc + 1 ELSE 0
       /\ res' = IF accepted THEN res ELSE Json(500, "upload error")
       /\ body' = IF accepted THEN b ELSE body
  /\ UNCHANGED <<ADMIN_API_KEY, ADMIN_EMAILS, req, gate, idp, getUserCalls, ops>>
  /\ UNCHANGED pureVars
  /\ UNCHANGED <<impPc, mapped, idx, results, table>>

\* lines 173-218 and 221: no file, or the file does not parse, or the rows
\* are mapped and the replace delete is issued.
ImportStart ==
  /\ Stage = "import-csv" /\ impPc = "idle"
  /\ \E parsed \in BOOLEAN :
       IF ~body.file \/ ~parsed
       THEN /\ res' = IF ~body.file THEN Json(400, "missing file") ELSE Json(500, "parse error")
            /\ pc' = 0
            /\ UNCHANGED <<ops, impPc, mapped, idx, results>>
       ELSE /\ mapped' = MappedLength(body)
            /\ IF ReplaceModeOn(body.replace_mode)
               THEN /\ ops' = Append(ops, Call("delete", "product_registrations", 0, 0, "pending"))
                    /\ impPc' = "awaitDelete"
                    /\ UNCHANGED <<idx, results>>
               ELSE /\ impPc' = "loop"
                    /\ idx' = 0
                    /\ results' = InitialResults(mapped')
                    /\ UNCHANGED ops
            /\ UNCHANGED <<res, pc>>
  /\ UNCHANGED <<ADMIN_API_KEY, ADMIN_EMAILS, req, gate, idp, getUserCalls, body, table>>
  /\ UNCHANGED pureVars

\* line 217 returns: its result is not looked at.
ImportDeleteReturn ==
  /\ impPc = "awaitDelete"
  /\ \E err \in BOOLEAN :
       /\ ops' = Returned(ops, Outcome(err))
       /\ table' = AfterDelete(table, err)
  /\ impPc' = "loop"
  /\ idx' = 0
  /\ results' = InitialResults(mapped)
  /\ UNCHANGED <<ADMIN_API_KEY, ADMIN_EMAILS, req, pc, res, gate, idp, getUserCalls>>
  /\ UNCHANGED pureVars
  /\ UNCHANGED <<body, mapped>>

\* lines 222-224: the next chunk is sliced and its insert issued.
ImportIssueInsert ==
  /\ impPc = "loop"
  /\ idx < mapped
  /\ ops' = Append(ops, Call("insert", "product_registrations", idx, ChunkLen(mapped, idx), "pending"))
  /\ impPc' = "awaitInsert"
  /\ UNCHANGED <<ADMIN_API_KEY, ADMIN_EMAILS, req, pc, res, gate, idp, getUserCalls>>
  /\ UNCHANGED pureVars
  /\ UNCHANGED <<body, mapped, idx, results, table>>

\* lines 224-228 and the loop's i += CHUNK: the insert returns, with an error
\* or without, and the chunk is counted.
ImportInsertReturn ==
  /\ impPc = "awaitInsert"
  /\ \E err \in BOOLEAN :
       LET n == ChunkLen(mapped, idx) IN
       /\ ops' = Returned(ops, Outcome(err))
       /\ results' = Tally(results, n, err)
       /\ table' = AfterInsert(table, n, err)
  /\ idx' = NextIndex(idx)
  /\ impPc' = "loop"
  /\ UNCHANGED <<ADMIN_API_KEY, ADMIN_EMAILS, req, pc, res, gate, idp, getUserCalls>>
  /\ UNCHANGED pureVars
  /\ UNCHANGED <<body, mapped>>

\* line 230: the loop is over, the summary is sent.
ImportRespond ==
  /\ impPc = "loop"
  /\ idx >= mapped
  /\ res' = Ok
  /\ pc' = 0
  /\ impPc' = "done"
  /\ UNCHANGED <<ADMIN_API_KEY, ADMIN_EMAILS, req, gate, idp, getUserCalls, ops>>
  /\ UNCHANGED pureVars
  /\ UNCHANGED <<body, mapped, idx, results, table>>

ImportIdle ==
  /\ body = NoBody
  /\ impPc = "idle"
  /\ mapped = 0
  /\ idx = 0
  /\ results = InitialResults(0)

\* The server with no request in flight and no import running.
ServerIdle ==
  /\ ADMIN_API_KEY = Null
  /\ ADMIN_EMAILS = <<>>
  /\ req = [route |-> "companies", xAdminKey |-> Undefined, queryKey |-> Undefined,
            legacyKey |-> Undefined, authorization |-> Undefined, adminUser |-> Undefined]
  /\ pc = 0
  /\ res = NoResponse
  /\ gate = "none"
  /\ idp = NotCalled
  /\ getUserCalls = 0
  /\ ops = <<>>
  /\ ImportIdle
  /\ table = [prior |-> 0, fresh |-> 0]

(***************************************************************************)
(* SpecAuth: the server takes one request through its route's chain.       *)
(***************************************************************************)
InitAuth ==
  /\ \E e \in EnvAdminKeys : ADMIN_API_KEY = ParseAdminKey(e)
  /\ \E e \in EnvAdminEmails : ADMIN_EMAILS = ParseAdminEmails(e)
  /\ req = [route |-> "companies", xAdminKey |-> Undefined, queryKey |-> Undefined,
            legacyKey |-> Undefined, authorization |-> Undefined, adminUser |-> Undefined]
  /\ pc = 0
  /\ res = NoResponse
  /\ gate = "none"
  /\ idp = NotCalled
  /\ getUserCalls = 0
  /\ ops = <<>>
  /\ ImportIdle
  /\ table = [prior |-> 2, fresh |-> 0]
  /\ PureIdle

NextAuth ==
  \/ Arrive
  \/ AdminAuthStep
  \/ UploadSingle
  \/ HandleCompanies
  \/ HandleList
  \/ HandleCompanyCode
  \/ HandleSetCustomerCode
  \/ HandleProduct
  \/ HandleProductDelete
  \/ HandleBulkDelete
  \/ HandleExport
  \/ ImportStart
  \/ ImportDeleteReturn
  \/ ImportIssueInsert
  \/ ImportInsertReturn
  \/ ImportRespond

SpecAuth == InitAuth /\ [][NextAuth]_vars

\* C1: no backend table operation or rpc is issued for a request unless
\* adminAuth admitted it first; a request the gate rejected was answered 401,
\* 403 or 500, is not processed further and caused no backend call.
GateBeforeBackend ==
  /\ (gate # "admitted" => ops = <<>>)
  /\ (gate = "rejected" => pc = 0 /\ res.status \in {401, 403, 500})
  /\ (pc > 0 /\ Stage # "adminAuth" => gate = "admitted")

\* C1 witness: an admitted import request reached the backend.
GateBeforeBackendWitness ==
  /\ gate = "admitted"
  /\ req.route = "import-csv"
  /\ Len(ops) = 2
  /\ res = Ok

\* The first source of the static key that carries a value, as line 33 reads them.
FirstPresented ==
  IF Truthy(req.xAdminKey) THEN req.xAdminKey
  ELSE IF Truthy(req.queryKey) THEN req.queryKey
  ELSE req.legacyKey

\* C2 as stated: a request that presents the configured static key in any
\* header or query parameter is admitted without a call of getUser.
AnyMatchingKeyAdmits ==
  (/\ gate # "none"
   /\ ADMIN_API_KEY # Null
   /\ ADMIN_API_KEY \in {req.xAdminKey, req.queryKey, req.legacyKey})
  => (gate = "admitted" /\ getUserCalls = 0 /\ idp = NotCalled)

\* C2 as amended: when a static key is configured and the first non-empty of
\* the x-admin-key header, the admin_key query parameter and the
\* x-legacy-admin-key header equals it, the request is admitted and getUser
\* is never called, whatever Authorization header it carries.
StaticKeyAdmits ==
  (/\ gate # "none"
   /\ ADMIN_API_KEY # Null
   /\ FirstPresented = ADMIN_API_KEY)
  => (gate = "admitted" /\ getUserCalls = 0 /\ idp = NotCalled)

\* C2 witness: a request with the right key and a bearer header was admitted.
StaticKeyAdmitsWitness ==
  /\ gate = "admitted"
  /\ ADMIN_API_KEY = Str(SecretKey)
  /\ req.xAdminKey = Undefined /\ req.queryKey = Str(SecretKey)
  /\ req.authorization = Str(<<"B", "e", "a", "r", "e", "r", " ", "t">>)
  /\ getUserCalls = 0

BearerHeaders ==
  {Str(<<"B", "e", "a", "r", "e", "r", " ", "t">>),
   Str(<<"B", "E", "A", "R", "E", "R", " ", "t">>)}

AdminRoles == {Str(<<"a", "d", "m", "i", "n">>), Str(<<"A", "d", "m", "i", "n">>)}

Rejected(st, msg) == gate = "rejected" /\ res = Json(st, msg) /\ pc = 0

\* C3: a request the static key does not admit gets exactly one outcome, in
\* this order: with a bearer header, 401 'invalid token' when validation fails
\* or returns no user, 500 'auth error' when it throws (getUser throws, or the
\* role claim is no string), admission exactly when the role is "admin" in
\* any case or the email is in the allowlist, 403 'forbidden' otherwise;
\* without a bearer header, 401 'missing credentials' and no call of getUser.
DecisionOrder ==
  (gate # "none" /\ ~(ADMIN_API_KEY # Null /\ FirstPresented = ADMIN_API_KEY))
  => IF req.authorization \in BearerHeaders
     THEN /\ getUserCalls = 1
          /\ idp # NotCalled
          /\ idp.k = "throw" => Rejected(500, "auth error")
          /\ idp.k \in {"error", "nouser"} => Rejected(401, "invalid token")
          /\ idp.k = "user" =>
                IF idp.role = Num(7) THEN Rejected(500, "auth error")
                ELSE IF \/ idp.role \in AdminRoles
                        \/ \E i \in 1..Len(ADMIN_EMAILS) : Str(ADMIN_EMAILS[i]) = idp.email
                     THEN gate = "admitted" /\ req.adminUser = idp
                     ELSE Rejected(403, "forbidden")
     ELSE /\ Rejected(401, "missing credentials")
          /\ getUserCalls = 0

\* C3 witness: a bearer token whose user has the role "Admin" was admitted
\* though no static key is configured and the allowlist is empty.
DecisionOrderWitness ==
  /\ gate = "admitted"
  /\ ADMIN_API_KEY = Null
  /\ ADMIN_EMAILS = <<>>
  /\ idp # NotCalled
  /\ idp.k = "user"
  /\ idp.role = Str(<<"A", "d", "m", "i", "n">>)

(***************************************************************************)
(* SpecImport: one import request the gate admitted and multer accepted,   *)
(* for every row count up to MaxRows.                                      *)
(***************************************************************************)
MaxRows == 1200
MaxDropped == 1
PriorRows == 2

ImportBodies ==
  [file : BOOLEAN, replace_mode : ReplaceModeValues, kept : 0..MaxRows, dropped : 0..MaxDropped]

InitImport ==
  /\ ADMIN_API_KEY = Str(SecretKey)
  /\ ADMIN_EMAILS = <<>>
  /\ req = [route |-> "import-csv", xAdminKey |-> Str(SecretKey), queryKey |-> Undefined,
            legacyKey |-> Undefined, authorization |-> Undefined, adminUser |-> Undefined]
  /\ pc = 3
  /\ res = NoResponse
  /\ gate = "admitted"
  /\ idp = NotCalled
  /\ getUserCalls = 0
  /\ ops = <<>>
  /\ body \in ImportBodies
  /\ impPc = "idle"
  /\ mapped = 0
  /\ idx = 0
  /\ results = InitialResults(0)
  /\ table \in {[prior |-> 0, fresh |-> 0], [prior |-> PriorRows, fresh |-> 0]}
  /\ PureIdle

NextImport ==
  \/ ImportStart
  \/ ImportDeleteReturn
  \/ ImportIssueInsert
  \/ ImportInsertReturn
  \/ ImportRespond

SpecImport == InitImport /\ [][NextImport]_vars

Inserts == SelectSeq(ops, LAMBDA c : c.op = "insert")
Deletes == SelectSeq(ops, LAMBDA c : c.op = "delete")
ReplaceRequested == body.replace_mode \in {Str(<<"1">>), Str(<<"t", "r", "u", "e">>)}
CeilDiv(n, d) == (n + d - 1) \div d

RECURSIVE SumRows(_)
SumRows(calls) == IF calls = <<>> THEN 0 ELSE Head(calls).n + SumRows(Tail(calls))

\* C4: with N rows kept by the filter, the inserts are the chunks 0, 500,
\* 1000, ... of at most 500 rows, each issued once and only after every
\* earlier call returned; with replace mode one delete is issued, before the
\* first insert, and without it none; the summary is sent after exactly
\* ceil(N/500) inserts.
ChunkedSequentialInserts ==
  /\ \A k \in 1..(Len(ops) - 1) : ops[k].st # "pending"
  /\ \A j \in 1..Len(Inserts) :
        /\ Inserts[j].from = (j - 1) * 500
        /\ Inserts[j].n = Min(500, body.kept - (j - 1) * 500)
        /\ Inserts[j].n > 0
  /\ Len(Deletes) = IF ReplaceRequested /\ ops # <<>> THEN 1 ELSE 0
  /\ Len(Deletes) = 1 => ops[1].op = "delete"
  /\ impPc = "done" =>
        /\ Len(Inserts) = CeilDiv(body.kept, 500)
        /\ Len(Deletes) = IF ReplaceRequested THEN 1 ELSE 0
        /\ \A k \in 1..Len(ops) : ops[k].st # "pending"

\* C4 witness: 1200 rows with replace mode: one delete, then three inserts.
ChunkedSequentialInsertsWitness ==
  /\ impPc = "done"
  /\ body.kept = 1200
  /\ ReplaceRequested
  /\ Len(ops) = 4
  /\ ops[1].op = "delete"
  /\ Len(Inserts) = 3

Failed == SelectSeq(Inserts, LAMBDA c : c.st = "error")
Succeeded == SelectSeq(Inserts, LAMBDA c : c.st = "ok")

\* C5: whatever batches fail, every batch is attempted, results.failed and
\* results.success are the rows of the failed and of the succeeded batches,
\* results.errors has one message per failed batch, results.total is the
\* number of rows the filter kept, and success + failed = total in the
\* summary.
BatchFailuresIsolated ==
  /\ impPc \in {"loop", "awaitInsert", "done"} =>
        /\ results.total = body.kept
        /\ results.failed = SumRows(Failed)
        /\ results.success = SumRows(Succeeded)
        /\ Len(results.errors) = Len(Failed)
  /\ impPc = "done" =>
        /\ res = Ok
        /\ Len(Inserts) = CeilDiv(body.kept, 500)
        /\ results.success + results.failed = results.total

\* C5 witness: the first of three batches failed, the other two were
\* attempted and succeeded, and a row the filter dropped is not counted.
BatchFailuresIsolatedWitness ==
  /\ impPc = "done"
  /\ body.dropped = 1
  /\ Len(Inserts) = 3
  /\ Inserts[1].st = "error" /\ Inserts[2].st = "ok" /\ Inserts[3].st = "ok"
  /\ results.failed = 500
  /\ results.success = results.total - 500

\* C6: with replace mode, when an insert is issued no row the scope held
\* before the import is still in the table, also when the backend answered
\* the delete with an error.
ReplaceHidesPriorRows ==
  (ReplaceRequested /\ Len(Inserts) > 0) => table.prior = 0

(***************************************************************************)
(* normalizeDate (lines 189-199)                                           *)
(***************************************************************************)
Digits == <<"0", "1", "2", "3", "4", "5", "6", "7", "8", "9">>

IsDigit(c) == \E i \in 1..10 : Digits[i] = c
DigitValue(c) == (CHOOSE i \in 1..10 : Digits[i] = c) - 1

\* Number(s) for a string of digits
RECURSIVE ToNumber(_)
ToNumber(s) ==
  IF s = <<>> THEN 0 ELSE 10 * ToNumber(SubSeq(s, 1, Len(s) - 1)) + DigitValue(s[Len(s)])

\* String(n) for an integer n >= 0
RECURSIVE NumToStr(_)
NumToStr(n) ==
  IF n < 10 THEN <<Digits[n + 1]>> ELSE NumToStr(n \div 10) \o <<Digits[(n % 10) + 1]>>

\* s.padStart(w, '0')
RECURSIVE PadStart(_, _)
PadStart(s, w) == IF Len(s) >= w THEN s ELSE PadStart(<<"0">> \o s, w)

IsDateSep(c) == c = "/" \/ c = "-"

\* The three groups of digits of a string of the shape digits, [/-], digits,
\* [/-], digits, and <<>> for a string of any other shape.  Both regular
\* expressions are anchored and their groups are digits around the two
\* separators, so a match splits the string here and nowhere else.
DateGroups(s) ==
  LET seps == {i \in 1..Len(s) : IsDateSep(s[i])} IN
  IF Cardinality(seps) = 2 /\ \A i \in (1..Len(s)) \ seps : IsDigit(s[i])
  THEN LET p == CHOOSE i \in seps : \A j \in seps : i <= j
           q == CHOOSE i \in seps : \A j \in seps : j <= i
       IN  <<SubSeq(s, 1, p - 1), SubSeq(s, p + 1, q - 1), SubSeq(s, q + 1, Len(s))>>
  ELSE <<>>

\* line 194: /^(\d{4})[\/-](\d{1,2})[\/-](\d{1,2})$/
IsoMatch(s) ==
  LET g == DateGroups(s) IN
  /\ g # <<>>
  /\ Len(g[1]) = 4
  /\ Len(g[2]) \in 1..2
  /\ Len(g[3]) \in 1..2

\* line 196: the lengths \d{2,4} gives the year group
DmyYearLengths == 2..4

\* line 196: /^(\d{1,2})[\/-](\d{1,2})[\/-](\d{2,4})$/
DmyMatch(s) ==
  LET g == DateGroups(s) IN
  /\ g # <<>>
  /\ Len(g[1]) \in 1..2
  /\ Len(g[2]) \in 1..2
  /\ Len(g[3]) \in DmyYearLengths

\* line 197: if(y<100) y += (y>=70 ? 1900 : 2000)
ExpandYear(y) == IF y < 100 THEN (IF y >= 70 THEN y + 1900 ELSE y + 2000) ELSE y

\* The civil date of day d, d counted from 1970-01-01 (the proleptic
\* Gregorian calendar Date uses).
CivilFromDays(d) ==
  LET z   == d + 719468
      era == z \div 146097
      doe == z - era * 146097
      yoe == (doe - doe \div 1460 + doe \div 36524 - doe \div 146096) \div 365
      doy == doe - (365 * yoe + yoe \div 4 - yoe \div 100)
      mp  == (5 * doy + 2) \div 153
      day == doy - (153 * mp + 2) \div 5 + 1
      m   == IF mp < 10 THEN mp + 3 ELSE mp - 9
      y   == yoe + era * 400 + (IF m <= 2 THEN 1 ELSE 0)
  IN  [year |-> y, month |-> m, day |-> day]

\* Date.prototype.toISOString().slice(0,10): years 0..9999 take four digits,
\* the others a sign and six.
IsoDate(d) ==
  LET c == CivilFromDays(d)
      year == IF c.year \in 0..9999 THEN PadStart(NumToStr(c.year), 4)
              ELSE IF c.year > 9999 THEN <<"+">> \o PadStart(NumToStr(c.year), 6)
              ELSE <<"-">> \o PadStart(NumToStr(-c.year), 6)
  IN  SubSeq(year \o <<"-">> \o PadStart(NumToStr(c.month), 2) \o <<"-">>
               \o PadStart(NumToStr(c.day), 2), 1, 10)

\* String(v) for the values the model passes
StringOf(v) ==
  CASE v.t = "string" -> v.s
    [] v.t = "number" -> IF v.n < 0 THEN <<"-">> \o NumToStr(-v.n) ELSE NumToStr(v.n)
    [] v.t = "invalid date" -> <<"I", "n", "v", "a", "l", "i", "d", " ", "D", "a", "t", "e">>
    [] v.t = "null" -> <<"n", "u", "l", "l">>
    [] OTHER -> <<"u", "n", "d", "e", "f", "i", "n", "e", "d">>

\* normalizeDate(v), lines 189-199
normalizeDate(v) ==
  IF ~Truthy(v) THEN Null
  ELSE IF v.t = "date" THEN Str(IsoDate(v.d))
  ELSE IF v.t = "number" THEN Str(IsoDate(v.n - 25569))
  ELSE LET s == Trim(StringOf(v))
           g == DateGroups(s)
       IN  IF IsoMatch(s)
           THEN Str(g[1] \o <<"-">> \o PadStart(g[2], 2) \o <<"-">> \o PadStart(g[3], 2))
           ELSE IF DmyMatch(s)
           THEN Str(NumToStr(ExpandYear(ToNumber(g[3]))) \o <<"-">> \o PadStart(g[2], 2)
                      \o <<"-">> \o PadStart(g[1], 2))
           ELSE Null

(***************************************************************************)
(* SpecDate: normalizeDate applied to one value.                           *)
(***************************************************************************)
DigitGroups ==
  {<<"5">>, <<"0", "5">>, <<"2", "4">>, <<"7", "0">>, <<"1", "2", "3">>,
   <<"2", "0", "2", "4">>, <<"0", "0", "9", "9">>, <<"1", "2", "3", "4", "5">>}

MonthGroups == {<<"3">>, <<"1", "2">>, <<"1", "2", "3">>}

Separators == {"-", "/", "."}

Paddings == {<<>>, <<" ">>}

DateStrings ==
  {pad \o a \o <<s1>> \o b \o <<s2>> \o c \o pad :
     a \in DigitGroups, b \in MonthGroups, c \in DigitGroups,
     s1 \in Separators, s2 \in Separators, pad \in Paddings}
  \cup {<<>>, <<" ">>, <<"n", "o", "t", " ", "a", " ", "d", "a", "t", "e">>,
        <<"2", "0", "2", "4">>, <<"2", "0", "2", "4", "-", "3">>}

DateInputs ==
  {Undefined, Null, InvalidDate}
    \cup {Str(s) : s \in DateStrings}
    \cup {Num(n) : n \in {0, 1, 60, 25569, 45000, 2958465, 2958466}}
    \cup {DateV(d) : d \in {0, 19782, -25567}}

NormalizeDate ==
  /\ dateOut = NotRun
  /\ dateOut' = normalizeDate(dateIn)
  /\ UNCHANGED <<authVars, impVars, dateIn, rowVars, rtVars, upVars>>

InitDate ==
  /\ ServerIdle
  /\ dateIn \in DateInputs
  /\ dateOut = NotRun
  /\ RowIdle
  /\ RoundTripIdle
  /\ UpsertIdle

NextDate == NormalizeDate

SpecDate == InitDate /\ [][NextDate]_vars

\* YYYY-MM-DD: four digits, two digits, two digits
Canonical(s) ==
  /\ Len(s) = 10
  /\ s[5] = "-" /\ s[8] = "-"
  /\ \A i \in {1, 2, 3, 4, 6, 7, 9, 10} : IsDigit(s[i])

\* C7: normalizeDate returns null or a string of the form YYYY-MM-DD, for
\* every input; in particular a string that is neither YYYY[-/]M[-/]D nor
\* D[-/]M[-/]YY nor D[-/]M[-/]YYYY gives null.
DateCanonicalOrNull ==
  dateOut # NotRun =>
    /\ dateOut = Null \/ (dateOut.t = "string" /\ Canonical(dateOut.s))
    /\ (dateIn.t = "string" /\ dateOut # Null) =>
          LET g == DateGroups(Trim(dateIn.s)) IN
          /\ g # <<>>
          /\ \/ Len(g[1]) = 4 /\ Len(g[2]) \in 1..2 /\ Len(g[3]) \in 1..2
             \/ Len(g[1]) \in 1..2 /\ Len(g[2]) \in 1..2 /\ Len(g[3]) \in {2, 4}

(***************************************************************************)
(* The row mapper (lines 202-214).  A row is a function from column names  *)
(* to values, Undefined for a column the file does not have.  The          *)
(* localized headers of lines 203-212 are written th_<field>.              *)
(***************************************************************************)
Fields ==
  <<"brand_name", "common_label", "registration_no", "importer", "manufacturer_source",
    "distributor", "packed_volume", "registration_date", "expiry_date", "license_no">>

FieldSet == {Fields[i] : i \in 1..Len(Fields)}

\* The localized names with those of importer and distributor exchanged.
LocalNameSwapped ==
  [brand_name |-> "th_brand_name", common_label |-> "th_common_label",
   registration_no |-> "th_registration_no", importer |-> "th_distributor",
   manufacturer_source |-> "th_manufacturer_source", distributor |-> "th_importer",
   packed_volume |-> "th_packed_volume", registration_date |-> "th_registration_date",
   expiry_date |-> "th_expiry_date", license_no |-> "th_license_no"]

\* The localized column name of each field, lines 203-212.
LocalName ==
  [brand_name |-> "th_brand_name", common_label |-> "th_common_label",
   registration_no |-> "th_registration_no", importer |-> "th_importer",
   manufacturer_source |-> "th_manufacturer_source", distributor |-> "th_distributor",
   packed_volume |-> "th_packed_volume", registration_date |-> "th_registration_date",
   expiry_date |-> "th_expiry_date", license_no |-> "th_license_no"]

LocalizedSet ==
  {"th_brand_name", "th_common_label", "th_registration_no", "th_importer",
   "th_manufacturer_source", "th_distributor", "th_packed_volume",
   "th_registration_date", "th_expiry_date", "th_license_no"}

Columns == FieldSet \cup LocalizedSet \cup {"company_code"}

\* r.<field> || r['<localized header>']
Pick(r, f) == Or(r[f], r[LocalName[f]])

\* lines 203-213: the record a row maps to
MapRow(r, company_code) ==
  LET brand  == Or(Pick(r, "brand_name"), Str(<<>>))
      common == Or(Pick(r, "common_label"), Str(<<>>))
  IN  [company_code        |-> company_code,
       brand_name          |-> Str(Trim(StringOf(brand))),
       common_label        |-> Str(Trim(StringOf(common))),
       registration_no     |-> Or(Pick(r, "registration_no"), Null),
       importer            |-> Or(Pick(r, "importer"), Null),
       manufacturer_source |-> Or(Pick(r, "manufacturer_source"), Null),
       distributor         |-> Or(Pick(r, "distributor"), Null),
       packed_volume       |-> Or(Pick(r, "packed_volume"), Null),
       registration_date   |-> normalizeDate(Pick(r, "registration_date")),
       expiry_date         |-> normalizeDate(Pick(r, "expiry_date")),
       license_no          |-> Or(Pick(r, "license_no"), Null)]

\* line 214: x.brand_name && x.common_label
Keep(x) == Truthy(x.brand_name) /\ Truthy(x.common_label)

\* lines 202-214: records.map(...).filter(...)
MapRows(records, company_code) ==
  SelectSeq([i \in 1..Len(records) |-> MapRow(records[i], company_code)], Keep)

(***************************************************************************)
(* SpecMapper: one row of values, mapped once under the canonical column   *)
(* names and once under the localized ones.                                *)
(***************************************************************************)
TextValues(c) == {Str(<<>>), Str(<<c>>)}

NameValues == {Str(<<>>), Str(<<" ">>), Str(<<"a", "b">>), Str(<<" ", "a", " ">>)}

RowValues ==
  [brand_name : NameValues,
   common_label : NameValues \ {Str(<<" ">>)},
   registration_no : TextValues("r"),
   importer : TextValues("i"),
   manufacturer_source : TextValues("m"),
   distributor : TextValues("d"),
   packed_volume : TextValues("p"),
   registration_date : {Str(<<>>), Str(<<"2", "0", "2", "4", "-", "3", "-", "5">>),
                        Str(<<"5", "/", "3", "/", "2", "4">>), Str(<<"x">>), DateV(19782)},
   expiry_date : {Str(<<>>), Str(<<"1", "/", "2", "/", "7", "0">>), Num(45000)},
   license_no : TextValues("l")]

\* The row that carries vals under the canonical names only.
\* (the company_code column an exported file has is in it too).
CanonicalRow(vals) ==
  [c \in Columns |->
     IF c \in FieldSet THEN vals[c]
     ELSE IF c = "company_code" THEN Str(<<"z", "z">>)
     ELSE Undefined]

\* The field each localized header of a file stands for.
FieldOfHeader ==
  [th_brand_name |-> "brand_name", th_common_label |-> "common_label",
   th_registration_no |-> "registration_no", th_importer |-> "importer",
   th_manufacturer_source |-> "manufacturer_source", th_distributor |-> "distributor",
   th_packed_volume |-> "packed_volume", th_registration_date |-> "registration_date",
   th_expiry_date |-> "expiry_date", th_license_no |-> "license_no"]

\* The row that carries vals under the localized names only.
LocalizedRow(vals) ==
  [c \in Columns |-> IF c \in LocalizedSet THEN vals[FieldOfHeader[c]] ELSE Undefined]

Mapped(rows) == [t |-> "mapped", rows |-> rows]

ScopeCode == Str(<<"c", "1">>)

MapCanonicalRow ==
  /\ mappedCanonical = NotRun
  /\ mappedCanonical' = Mapped(MapRows(<<CanonicalRow(rowVals)>>, ScopeCode))
  /\ UNCHANGED <<authVars, impVars, dateVars, rowVals, mappedLocalized, rtVars, upVars>>

MapLocalizedRow ==
  /\ mappedLocalized = NotRun
  /\ mappedLocalized' = Mapped(MapRows(<<LocalizedRow(rowVals)>>, ScopeCode))
  /\ UNCHANGED <<authVars, impVars, dateVars, rowVals, mappedCanonical, rtVars, upVars>>

InitMapper ==
  /\ ServerIdle
  /\ DateIdle
  /\ rowVals \in RowValues
  /\ mappedCanonical = NotRun
  /\ mappedLocalized = NotRun
  /\ RoundTripIdle
  /\ UpsertIdle

NextMapper ==
  \/ MapCanonicalRow
  \/ MapLocalizedRow

SpecMapper == InitMapper /\ [][NextMapper]_vars

EmptyAfterTrim(v) == \A i \in 1..Len(v.s) : v.s[i] = " "

\* C8: a row under the localized names maps to the same records as the row
\* with the same values under the canonical names, and a row whose
\* brand_name or common_label is empty after trimming is dropped from
\* mapped, so it is not inserted and not counted in results.total.
RowMapperNamesAgree ==
  /\ (mappedCanonical # NotRun /\ mappedLocalized # NotRun)
       => mappedCanonical = mappedLocalized
  /\ \A m \in {mappedCanonical, mappedLocalized} :
       (m # NotRun /\ (EmptyAfterTrim(rowVals.brand_name) \/ EmptyAfterTrim(rowVals.common_label)))
       => (m.rows = <<>> /\ InitialResults(Len(m.rows)).total = 0)

\* C8 witness: a row with every column filled was mapped under both sets of
\* names to one record, its dates normalized and its names trimmed.
RowMapperNamesAgreeWitness ==
  /\ mappedCanonical # NotRun
  /\ mappedLocalized = mappedCanonical
  /\ rowVals.brand_name = Str(<<" ", "a", " ">>)
  /\ rowVals.importer = Str(<<"i">>) /\ rowVals.distributor = Str(<<"d">>)
  /\ rowVals.registration_date = Str(<<"5", "/", "3", "/", "2", "4">>)
  /\ Len(mappedLocalized.rows) = 1
  /\ mappedLocalized.rows[1].brand_name = Str(<<"a">>)
  /\ mappedLocalized.rows[1].importer = Str(<<"i">>)
  /\ mappedLocalized.rows[1].registration_date =
        Str(<<"2", "0", "2", "4", "-", "0", "3", "-", "0", "5">>)

(***************************************************************************)
(* The export handler (lines 235-250) and the spreadsheet it writes, read  *)
(* back by the import handler (lines 183-185).                             *)
(***************************************************************************)
\* line 241: the header row
ExportHeader == <<"company_code">> \o Fields

\* line 239: .select('*').eq('company_code', code)
SelectScope(rows, code) == SelectSeq(rows, LAMBDA r : r.company_code = Str(code))

\* line 242: one row of cells, r.<column> || '' for each column of the header
ExportCells(r) == [k \in 1..Len(ExportHeader) |-> Or(r[ExportHeader[k]], Str(<<>>))]

\* lines 241-242: the array of arrays
Aoa(data) == <<ExportHeader>> \o [i \in 1..Len(data) |-> ExportCells(data[i])]

\* lines 183-185: XLSX.utils.sheet_to_json(ws, { defval: '' }) on the sheet
\* written from aoa: one row per line after the header, keyed by the header
\* cells, a string cell read back as the string written.
SheetToJson(aoa) ==
  LET header == aoa[1]
      cell(i, c) == aoa[i + 1][CHOOSE k \in 1..Len(header) : header[k] = c]
  IN  [i \in 1..(Len(aoa) - 1) |->
         [c \in Columns |->
            IF \E k \in 1..Len(header) : header[k] = c THEN cell(i, c) ELSE Undefined]]

(***************************************************************************)
(* SpecRoundTrip: rows are stored by POST /product, the scope is exported, *)
(* and the exported file is imported into the same company_code with       *)
(* replace mode off.                                                       *)
(***************************************************************************)
MaxStored == 2

Scope == <<"c", "1">>

\* The product objects of the upsert bodies.
Products ==
  [brand_name : {Str(<<"a">>), Str(<<" ", "a">>)},
   common_label : {Str(<<"c">>)},
   registration_no : {Null, Str(<<"r">>)},
   importer : {Null},
   manufacturer_source : {Null},
   distributor : {Null},
   packed_volume : {Null},
   registration_date : {Null, Str(<<"2", "0", "2", "4", "-", "0", "3", "-", "0", "5">>)},
   expiry_date : {Null},
   license_no : {Null}]

\* line 142: { company_code: codeUp, company_id, ...product }, and the id
\* the table gives the row
InsertedProduct(codeUp, company_id, product, id) ==
  [c \in {"id", "company_code", "company_id"} \cup FieldSet |->
     IF c = "id" THEN Num(id)
     ELSE IF c = "company_code" THEN Str(codeUp)
     ELSE IF c = "company_id" THEN company_id
     ELSE product[c]]

\* POST /api/admin/product without product.id (lines 141-145) stores a row.
RtProductInsert ==
  /\ rtPc = "fill"
  /\ Len(store) < MaxStored
  /\ \E product \in Products :
       store' = Append(store, InsertedProduct(Scope, Null, product, Len(store) + 1))
  /\ UNCHANGED <<authVars, impVars, dateVars, rowVars, exported, sheet, reimported, rtPc, upVars>>

\* GET /api/admin/export?code=c1 (lines 237-245)
RtExport ==
  /\ rtPc = "fill"
  /\ exported' = SelectScope(store, Scope)
  /\ sheet' = Aoa(exported')
  /\ rtPc' = "exported"
  /\ UNCHANGED <<authVars, impVars, dateVars, rowVars, store, reimported, upVars>>

\* POST /api/admin/import-csv with the exported file, company_code c1 and no
\* replace_mode (lines 183-230): fewer than CHUNK rows, so one insert.
RtImport ==
  /\ rtPc = "exported"
  /\ Len(sheet) - 1 <= CHUNK
  /\ \E err \in BOOLEAN :
       LET rows == MapRows(SheetToJson(sheet), Str(Scope)) IN
       /\ reimported' = Mapped(rows)
       /\ results' = IF rows = <<>> THEN InitialResults(0)
                     ELSE Tally(InitialResults(Len(rows)), Len(rows), err)
       /\ store' = IF err THEN store
                   ELSE store \o [i \in 1..Len(rows) |->
                          InsertedProduct(Scope, Null, rows[i], Len(store) + i)]
  /\ rtPc' = "imported"
  /\ UNCHANGED <<authVars, body, impPc, mapped, idx, table, dateVars, rowVars, exported, sheet, upVars>>

InitRoundTrip ==
  /\ ServerIdle
  /\ DateIdle
  /\ RowIdle
  /\ RoundTripIdle
  /\ UpsertIdle

NextRoundTrip ==
  \/ RtProductInsert
  \/ RtExport
  \/ RtImport

SpecRoundTrip == InitRoundTrip /\ [][NextRoundTrip]_vars

OptionalFields == FieldSet \ {"brand_name", "common_label"}

\* Equal field by field over company_code and the fields of the sheet, the id
\* apart, null and '' taken for the same in the optional fields.
Equivalent(a, b) ==
  /\ a.company_code = b.company_code
  /\ a.brand_name = b.brand_name
  /\ a.common_label = b.common_label
  /\ \A f \in OptionalFields :
        a[f] = b[f] \/ {a[f], b[f]} \subseteq {Null, Str(<<>>)}

\* C9: the import of an exported scope, replace mode off, inserts records
\* equivalent to the exported ones: none is lost, none is altered.
RoundTripPreserves ==
  (rtPc = "imported" /\ results.failed = 0) =>
    /\ Len(reimported.rows) = Len(exported)
    /\ \A i \in 1..Len(exported) : Equivalent(exported[i], reimported.rows[i])

(***************************************************************************)
(* SpecUpsert: NumRequests concurrent POST /api/admin/product requests     *)
(* (lines 115-147), each cut at its awaits.  A table call takes effect     *)
(* when it returns.                                                        *)
(***************************************************************************)
NumRequests == 2

Procs == 1..NumRequests

UpsertBodies ==
  [company_code : {Undefined, Str(<<"c", "1">>), Str(<<" ", "c", "1">>)},
   company_name : {Undefined},
   product : {"none", "new", "withId"}]

\* The ids of the companies whose code is code, in table order.
CompaniesWithCode(code) == SelectSeq(companies, LAMBDA c : c.code = code)

UpSet(p, f, v) == [up EXCEPT ![p][f] = v]

\* lines 117-124: no product is a 400; with a code the company is looked up,
\* without one the product is written at once.
UpsertStart(p) ==
  /\ up[p].pc = "start"
  /\ up' = IF up[p].body.product = "none"
           THEN [up EXCEPT ![p].pc = "done", ![p].res = Json(400, "missing product")]
           ELSE IF Len(CodeUp(up[p].body.company_code)) > 0
           THEN UpSet(p, "pc", "awaitSelect")
           ELSE UpSet(p, "pc", "awaitWrite")
  /\ UNCHANGED <<authVars, impVars, dateVars, rowVars, rtVars, companies, products>>

\* lines 124-127: the select returns, its error not looked at; a row gives
\* company_id, no row (or an error) has the company inserted.
UpsertSelectReturn(p) ==
  /\ up[p].pc = "awaitSelect"
  /\ \E err \in BOOLEAN :
       LET found == IF err THEN <<>> ELSE CompaniesWithCode(CodeUp(up[p].body.company_code)) IN
       up' = IF found # <<>>
             THEN [up EXCEPT ![p].pc = "awaitWrite", ![p].company_id = found[1].id]
             ELSE UpSet(p, "pc", "awaitCompanyInsert")
  /\ UNCHANGED <<authVars, impVars, dateVars, rowVars, rtVars, companies, products>>

\* lines 127-128: the insert of the company returns: an error is thrown to
\* the catch of line 146, a row gives company_id.
UpsertCompanyInsertReturn(p) ==
  /\ up[p].pc = "awaitCompanyInsert"
  /\ \E err \in BOOLEAN :
       IF err
       THEN /\ up' = [up EXCEPT ![p].pc = "done", ![p].res = Json(500, "backend")]
            /\ UNCHANGED companies
       ELSE LET codeUp == CodeUp(up[p].body.company_code)
                id == Len(companies) + 1
            IN  /\ companies' = Append(companies,
                      [id |-> id, code |-> codeUp,
                       name |-> Or(up[p].body.company_name, Str(codeUp))])
                /\ up' = [up EXCEPT ![p].pc = "awaitWrite", ![p].company_id = id]
  /\ UNCHANGED <<authVars, impVars, dateVars, rowVars, rtVars, products>>

\* lines 133-145: the update or the insert of the product returns.
UpsertWriteReturn(p) ==
  /\ up[p].pc = "awaitWrite"
  /\ \E err \in BOOLEAN :
       /\ up' = [up EXCEPT ![p].pc = "done",
                           ![p].res = IF err THEN Json(500, "backend") ELSE Ok]
       /\ products' = IF err \/ up[p].body.product = "withId" THEN products
                      ELSE Append(products,
                             [company_code |-> CodeUp(up[p].body.company_code),
                              company_id |-> up[p].company_id])
  /\ UNCHANGED <<authVars, impVars, dateVars, rowVars, rtVars, companies>>

InitUpsert ==
  /\ ServerIdle
  /\ DateIdle
  /\ RowIdle
  /\ RoundTripIdle
  /\ companies = <<>>
  /\ products = <<>>
  /\ \E bodies \in [Procs -> UpsertBodies] :
       up = [p \in Procs |->
               [pc |-> "start", body |-> bodies[p], company_id |-> 0, res |-> NoResponse]]

NextUpsert ==
  \E p \in Procs :
    \/ UpsertStart(p)
    \/ UpsertSelectReturn(p)
    \/ UpsertCompanyInsertReturn(p)
    \/ UpsertWriteReturn(p)

SpecUpsert == InitUpsert /\ [][NextUpsert]_vars

\* C10: whatever the interleaving of the upserts, no two companies have the
\* same code (the find-or-create step never creates a second company for a
\* code), and a request that carried a code and succeeded leaves exactly one
\* company of that code in the table.
CompanyCodeUnique ==
  /\ \A i \in 1..Len(companies), j \in 1..Len(companies) :
        companies[i].code = companies[j].code => i = j
  /\ \A p \in Procs :
        (up[p].pc = "done" /\ up[p].res = Ok /\ Len(CodeUp(up[p].body.company_code)) > 0)
        => Len(CompaniesWithCode(CodeUp(up[p].body.company_code))) = 1

====
